---- MODULE Spec2Model ----
(***************************************************************************)
(* localscan: the concurrent scan orchestrator (scanner.Scan), the probe   *)
(* cascade (detectHost) and the progress consumer of main.                 *)
(*                                                                         *)
(* Spec        : main's scan goroutine, Scan's workers and fallback phase, *)
(*               and main's progress consumer, under every interleaving.   *)
(* SpecCascade : detectHost applied to every network behaviour of one      *)
(*               address within the port windows.                          *)
(***************************************************************************)
EXTENDS Integers, Sequences, FiniteSets, TLC

\* ---------------------------------------------------------------- bounds
MaxHosts == 2        \* longest address sequence handed to Scan
MaxAddr == 2         \* addresses are the numeric values 1..MaxAddr
MaxWorkers == 2      \* largest -workers value
PortWindow == 7      \* SpecCascade: leading tcpPorts that may answer
UdpWindow == 2       \* SpecCascade: leading udpPorts that may answer
ScanPortWindow == 1  \* Spec: leading tcpPorts that may answer
ScanUdpWindow == 1   \* Spec: leading udpPorts that may answer

VARIABLES
  hosts,        \* Scan's hosts argument: sequence of addresses
  workers,      \* the -workers flag / Scan's workers argument
  spc,          \* position of main's scan goroutine (inside Scan, then the closes)
  si,           \* loop index of the Scan goroutine's current for loop
  jobs,         \* buffered channel jobs: indices into hosts
  jobsClosed,   \* close(jobs) happened
  wgCount,      \* sync.WaitGroup counter
  mu,           \* sync.Mutex: 0 when free, else the worker holding it
  foundSet,     \* map[string]bool, as the set of keys mapped to true
  results,      \* Scan's results slice
  progress,     \* the atomic completed counter
  wpc,          \* position of each worker goroutine
  wl,           \* each worker's locals: idx, method, openPorts, cur, found
  arpTable,     \* the map returned by GetARPTable inside Scan
  progressCh,   \* buffered channel of Progress events
  progClosed,   \* close(progressCh) happened
  doneClosed,   \* close(done) happened
  panicked,     \* a send on the closed progress channel happened
  mresults,     \* main's results variable, assigned when Scan returns
  mpc,          \* position of main (the progress consumer)
  maxProgress,  \* main's running maximum of p.Current
  received,     \* events main has taken from progressCh, in order
  sentLog,      \* every event sent on progressCh, in order, with its sender
  finalResults, \* the result set main goes on with after PrintComplete
  probed,       \* history: what detectHost returned for each index of hosts
  joinedResults,\* history: Scan's results at the moment wg.Wait() returned
  cnet,         \* SpecCascade: the network behaviour of the probed address
  cret,         \* SpecCascade: detectHost's return value, once it returned
  dpc,          \* SpecDiff: how often ComputeDiff has been called
  dcur0,        \* SpecDiff: history: the caller's current slice before any call
  dprev0,       \* SpecDiff: history: the caller's previous slice before any call
  dcur,         \* SpecDiff: the caller's current slice
  dprev,        \* SpecDiff: the caller's previous slice
  dout,         \* SpecDiff: the values ComputeDiff returned, call by call
  hpc,          \* SpecHistory: position: before SaveHistory, after it, after LoadHistory
  hin,          \* SpecHistory: the result set handed to SaveHistory
  hfile,        \* SpecHistory: ~/.localscan/last.json
  herr,         \* SpecHistory: the errors SaveHistory and LoadHistory returned
  hout,         \* SpecHistory: the result set LoadHistory returned
  tpc,          \* SpecRuns: position of main after the scan
  truns,        \* SpecRuns: number of the run
  tdiff,        \* SpecRuns: the -diff flag of the run
  tresults,     \* SpecRuns: main's results slice
  tprev,        \* SpecRuns: main's previous, as LoadHistory returned it
  tloadErr,     \* SpecRuns: LoadHistory returned an error
  lastJson,     \* SpecRuns: ~/.localscan/last.json
  tsaved,       \* SpecRuns: the toSave slices handed to SaveHistory in this run
  tsaveErr,     \* SpecRuns: SaveHistory returned an error
  twarn,        \* SpecRuns: the notes written to stderr in this run
  tcur,         \* SpecRuns: history: results as handed to ComputeDiff
  tmerged,      \* SpecRuns: history: results as ComputeDiff returned them
  twrote,       \* SpecRuns: history: final result set of the run that wrote last.json
  epc,          \* SpecEnum: position inside HostsInNetwork
  enet,         \* SpecEnum: the network argument: address and prefix length
  ecur,         \* SpecEnum: the loop variable current
  ehosts,       \* SpecEnum: the hosts slice
  eret,         \* SpecEnum: the returned slice, once returned
  ppc,          \* SpecPing: position: before icmpPing, after it
  pgoos,        \* SpecPing: runtime.GOOS
  ptimeout,     \* SpecPing: the timeout argument, a time.Duration in nanoseconds
  parg,         \* SpecPing: the number handed to ping after -w or -W
  palive        \* SpecPing: icmpPing's return value

scanVars == <<hosts, workers, spc, si, jobs, jobsClosed, wgCount, mu, foundSet,
              results, progress, wpc, wl, arpTable, progressCh, progClosed,
              doneClosed, panicked, mresults, mpc, maxProgress, received,
              sentLog, finalResults, probed, joinedResults>>
cascadeVars == <<cnet, cret>>
diffVars == <<dpc, dcur0, dprev0, dcur, dprev, dout>>
histVars == <<hpc, hin, hfile, herr, hout>>
tailVars == <<tpc, truns, tdiff, tresults, tprev, tloadErr, lastJson, tsaved,
              tsaveErr, twarn, tcur, tmerged, twrote>>
enumVars == <<epc, enet, ecur, ehosts, eret>>
pingVars == <<ppc, pgoos, ptimeout, parg, palive>>
auxVars == <<diffVars, histVars, tailVars, enumVars, pingVars>>
vars == <<scanVars, cascadeVars, auxVars>>

\* ------------------------------------------------------- probe cascade
tcpPorts ==
  <<22, 23, 53, 80, 443, 445, 139, 548, 3389, 5900, 8080, 8443, 8008, 8009,
    5353, 7000, 7100, 9100, 62078, 1883, 8883, 554, 5000, 5001, 9090, 3000>>

udpPorts == <<5353, 1900, 137, 161, 53, 123>>

Prefix(s, n) == {s[i] : i \in 1..(IF n < Len(s) THEN n ELSE Len(s))}

\* The behaviour of the network for one address: whether ping exits 0, which
\* TCP ports accept, which actively refuse (all others time out), and which
\* UDP ports send a non-empty reply.
Nets(tw, uw) ==
  {n \in [icmp : BOOLEAN, accept : SUBSET Prefix(tcpPorts, tw),
          refused : SUBSET Prefix(tcpPorts, tw), udp : SUBSET Prefix(udpPorts, uw)] :
     n.accept \cap n.refused = {}}

\* net.DialTimeout("tcp", ...) for one port
DialTCP(net, port) ==
  IF port \in net.accept THEN "ok"
  ELSE IF port \in net.refused THEN "ECONNREFUSED" ELSE "timeout"

isConnRefused(err) == err = "ECONNREFUSED"

icmpPing(net) == net.icmp

RECURSIVE tcpProbeFrom(_, _, _, _)
tcpProbeFrom(net, i, alive, openPorts) ==
  IF i > Len(tcpPorts) THEN [alive |-> alive, openPorts |-> openPorts]
  ELSE LET port == tcpPorts[i]
           err == DialTCP(net, port)
       IN IF err = "ok" THEN tcpProbeFrom(net, i + 1, TRUE, Append(openPorts, port))
          ELSE IF isConnRefused(err) THEN tcpProbeFrom(net, i + 1, TRUE, openPorts)
          ELSE tcpProbeFrom(net, i + 1, alive, openPorts)

tcpProbe(net) == tcpProbeFrom(net, 1, FALSE, <<>>)

udpCheck(net, port) == port \in net.udp

udpProbe(net) == \E i \in 1..Len(udpPorts) : udpCheck(net, udpPorts[i])

\* mutants of detectHost
detectHost_TcpFirst(net) ==
  LET t == tcpProbe(net)
  IN IF t.alive THEN [method |-> "TCP", openPorts |-> t.openPorts]
     ELSE IF icmpPing(net) THEN [method |-> "ICMP", openPorts |-> t.openPorts]
     ELSE IF udpProbe(net) THEN [method |-> "UDP", openPorts |-> t.openPorts]
     ELSE [method |-> "", openPorts |-> <<>>]

detectHost_DropPortsOnICMP(net) ==
  LET t == tcpProbe(net)
  IN IF icmpPing(net) THEN [method |-> "ICMP", openPorts |-> <<>>]
     ELSE IF t.alive THEN [method |-> "TCP", openPorts |-> t.openPorts]
     ELSE IF udpProbe(net) THEN [method |-> "UDP", openPorts |-> t.openPorts]
     ELSE [method |-> "", openPorts |-> <<>>]

detectHost_NoTcpMethod(net) ==
  LET t == tcpProbe(net)
  IN IF icmpPing(net) THEN [method |-> "ICMP", openPorts |-> t.openPorts]
     ELSE IF udpProbe(net) THEN [method |-> "UDP", openPorts |-> t.openPorts]
     ELSE [method |-> "", openPorts |-> t.openPorts]

detectHost(net) ==
  LET icmpAlive == icmpPing(net)
      t == tcpProbe(net)
  IN IF icmpAlive THEN [method |-> "ICMP", openPorts |-> t.openPorts]
     ELSE IF t.alive THEN [method |-> "TCP", openPorts |-> t.openPorts]
     ELSE IF udpProbe(net) THEN [method |-> "UDP", openPorts |-> t.openPorts]
     ELSE [method |-> "", openPorts |-> <<>>]

\* ------------------------------------------------------------ Scan: data
Addrs == 1..MaxAddr

\* ip.String(): the canonical key of an address in foundSet and arpTable
IPString(ip) == ip

HostSeqs == UNION {[1..n -> Addrs] : n \in 1..MaxHosts}

ScanNets == Nets(ScanPortWindow, ScanUdpWindow)

\* `mac, ok := arpTable[ipStr]` for each key: absent, present with an empty
\* hardware address, present with a hardware address
ArpEntries ==
  {[ok |-> FALSE, mac |-> ""], [ok |-> TRUE, mac |-> ""],
   [ok |-> TRUE, mac |-> "aa:bb:cc:00:00:01"]}

ArpTables == [{IPString(a) : a \in Addrs} -> ArpEntries]

\* ScanResult{IP, Method, OpenPorts}
ScanResult(ip, method, openPorts) ==
  [IP |-> ip, Method |-> method, OpenPorts |-> openPorts]

\* Progress{Current, Total, IP, Found}; Found is <<>> for nil, else <<result>>
Progress(cur, total, ipStr, found) ==
  [Current |-> cur, Total |-> total, IP |-> ipStr, Found |-> found]

total == Len(hosts)

WorkerIds == 1..MaxWorkers

NoLocals == [idx |-> 0, method |-> "", openPorts |-> <<>>, cur |-> 0, found |-> <<>>]

\* mutant: the jobs channel holds one address less
JobsCap_OneLess == Len(hosts) - 1

\* make(chan int, len(hosts))
JobsCap == Len(hosts)

\* mutant: the progress channel holds one event less than there are workers
ChanCap_OneLess == workers - 1

\* make(chan scanner.Progress, workers)
ChanCap == workers

\* mutant: the join is missing
WgWaitReturns_NoWait == TRUE

\* wg.Wait() returns
WgWaitReturns == wgCount = 0

InitScan ==
  /\ hosts \in HostSeqs
  /\ workers \in 0..MaxWorkers
  /\ spc = "spawn"
  /\ si = 0
  /\ jobs = <<>>
  /\ jobsClosed = FALSE
  /\ wgCount = 0
  /\ mu = 0
  /\ foundSet = {}
  /\ results = <<>>
  /\ progress = 0
  /\ wpc = [w \in WorkerIds |-> "unspawned"]
  /\ wl = [w \in WorkerIds |-> NoLocals]
  /\ arpTable = [k \in {IPString(a) : a \in Addrs} |-> [ok |-> FALSE, mac |-> ""]]
  /\ progressCh = <<>>
  /\ progClosed = FALSE
  /\ doneClosed = FALSE
  /\ panicked = FALSE
  /\ mresults = <<>>
  /\ mpc = "range"
  /\ maxProgress = 0
  /\ received = <<>>
  /\ sentLog = <<>>
  /\ finalResults = <<>>
  /\ probed = [i \in 1..Len(hosts) |-> <<>>]
  /\ joinedResults = <<>>

\* ---------------------------------------------- the progress channel
\* A send proceeds when the buffer has room, or, on an unbuffered channel,
\* when main is waiting in its range loop (the event is handed over).
\* A send on a closed channel panics.
CanSend ==
  \/ progClosed
  \/ Len(progressCh) < ChanCap
  \/ (ChanCap = 0 /\ mpc = "range")

\* mutant: the count of the last event is shown
Consume_LastValue(p) ==
  /\ maxProgress' = p.Current
  /\ received' = Append(received, p)

\* the body of main's range loop for one event
Consume(p) ==
  /\ maxProgress' = (IF p.Current > maxProgress THEN p.Current ELSE maxProgress)
  /\ received' = Append(received, p)

\* progressCh <- p, by a worker or by the fallback phase
Send(p, by) ==
  /\ CanSend
  /\ IF progClosed
     THEN /\ panicked' = TRUE
          /\ UNCHANGED <<progressCh, maxProgress, received, sentLog>>
     ELSE /\ sentLog' = Append(sentLog, [ev |-> p, by |-> by])
          /\ UNCHANGED panicked
          /\ IF Len(progressCh) < ChanCap
             THEN /\ progressCh' = Append(progressCh, p)
                  /\ UNCHANGED <<maxProgress, received>>
             ELSE /\ Consume(p)
                  /\ UNCHANGED progressCh

\* --------------------------------------------- Scan: the calling goroutine
\* for i := 0; i < workers; i++ { wg.Add(1); go func() {...}() }
Spawn ==
  /\ spc = "spawn"
  /\ IF si < workers
     THEN /\ wgCount' = wgCount + 1
          /\ wpc' = [wpc EXCEPT ![si + 1] = "range"]
          /\ si' = si + 1
          /\ UNCHANGED spc
     ELSE /\ spc' = "sendjobs"
          /\ si' = 0
          /\ UNCHANGED <<wgCount, wpc>>
  /\ UNCHANGED <<hosts, workers, jobs, jobsClosed, mu, foundSet, results, progress,
                 wl, arpTable, progressCh, progClosed, doneClosed, panicked,
                 mresults, mpc, maxProgress, received, sentLog, finalResults,
                 probed, joinedResults, cascadeVars, auxVars>>

\* mutant: the jobs channel is never closed
SendJobs_NoClose ==
  /\ spc = "sendjobs"
  /\ IF si < Len(hosts)
     THEN /\ Len(jobs) < JobsCap
          /\ jobs' = Append(jobs, si + 1)
          /\ si' = si + 1
          /\ UNCHANGED <<spc, jobsClosed>>
     ELSE /\ spc' = "wait"
          /\ UNCHANGED <<jobs, si, jobsClosed>>
  /\ UNCHANGED <<hosts, workers, wgCount, mu, foundSet, results, progress, wpc,
                 wl, arpTable, progressCh, progClosed, doneClosed, panicked,
                 mresults, mpc, maxProgress, received, sentLog, finalResults,
                 probed, joinedResults, cascadeVars, auxVars>>

\* for i := range hosts { jobs <- i }; close(jobs)
SendJobs ==
  /\ spc = "sendjobs"
  /\ IF si < Len(hosts)
     THEN /\ Len(jobs) < JobsCap
          /\ jobs' = Append(jobs, si + 1)
          /\ si' = si + 1
          /\ UNCHANGED <<spc, jobsClosed>>
     ELSE /\ jobsClosed' = TRUE
          /\ spc' = "wait"
          /\ UNCHANGED <<jobs, si>>
  /\ UNCHANGED <<hosts, workers, wgCount, mu, foundSet, results, progress, wpc,
                 wl, arpTable, progressCh, progClosed, doneClosed, panicked,
                 mresults, mpc, maxProgress, received, sentLog, finalResults,
                 probed, joinedResults, cascadeVars, auxVars>>

\* wg.Wait()
Wait ==
  /\ spc = "wait"
  /\ WgWaitReturns
  /\ spc' = "arp"
  /\ joinedResults' = results
  /\ UNCHANGED <<hosts, workers, si, jobs, jobsClosed, wgCount, mu, foundSet,
                 results, progress, wpc, wl, arpTable, progressCh, progClosed,
                 doneClosed, panicked, mresults, mpc, maxProgress, received,
                 sentLog, finalResults, probed, cascadeVars, auxVars>>

\* arpTable := GetARPTable(): whatever the operating system's cache holds
ReadArp ==
  /\ spc = "arp"
  /\ \E t \in ArpTables : arpTable' = t
  /\ spc' = "fallback"
  /\ si' = 0
  /\ UNCHANGED <<hosts, workers, jobs, jobsClosed, wgCount, mu, foundSet,
                 results, progress, wpc, wl, progressCh, progClosed,
                 doneClosed, panicked, mresults, mpc, maxProgress, received,
                 sentLog, finalResults, probed, joinedResults, cascadeVars, auxVars>>

\* mutant: an entry with an empty hardware address counts
ArpHit_IgnoreEmptyMac(ipStr) == arpTable[ipStr].ok

\* `if mac, ok := arpTable[ipStr]; ok && mac != ""`
ArpHit(ipStr) == arpTable[ipStr].ok /\ arpTable[ipStr].mac # ""

\* one iteration of `for _, ip := range hosts` up to the append, or the
\* return of Scan into main's results when the loop is over
Fallback ==
  /\ spc = "fallback"
  /\ IF si < Len(hosts)
     THEN LET ip == hosts[si + 1]
              ipStr == IPString(ip)
          IN IF ipStr \in foundSet \/ ~ArpHit(ipStr)
             THEN /\ si' = si + 1
                  /\ UNCHANGED <<spc, results, mresults>>
             ELSE /\ results' = Append(results, ScanResult(ip, "ARP", <<>>))
                  /\ spc' = "fbsend"
                  /\ UNCHANGED <<si, mresults>>
     ELSE /\ mresults' = results
          /\ spc' = "closeprog"
          /\ UNCHANGED <<si, results>>
  /\ UNCHANGED <<hosts, workers, jobs, jobsClosed, wgCount, mu, foundSet,
                 progress, wpc, wl, arpTable, progressCh, progClosed,
                 doneClosed, panicked, maxProgress, mpc, received, sentLog,
                 finalResults, probed, joinedResults, cascadeVars, auxVars>>

\* progressCh <- Progress{Current: total, Total: total, IP: ipStr, Found: &result}
FallbackSend ==
  /\ spc = "fbsend"
  /\ Send(Progress(total, total, IPString(hosts[si + 1]), <<results[Len(results)]>>),
          "fallback")
  /\ si' = si + 1
  /\ spc' = "fallback"
  /\ UNCHANGED <<hosts, workers, jobs, jobsClosed, wgCount, mu, foundSet,
                 results, progress, wpc, wl, arpTable, progClosed, doneClosed,
                 mresults, mpc, finalResults, probed, joinedResults, cascadeVars, auxVars>>

\* main's goroutine after Scan returned: close(progressCh)
CloseProgress ==
  /\ spc = "closeprog"
  /\ progClosed' = TRUE
  /\ spc' = "closedone"
  /\ UNCHANGED <<hosts, workers, si, jobs, jobsClosed, wgCount, mu, foundSet,
                 results, progress, wpc, wl, arpTable, progressCh, doneClosed,
                 panicked, mresults, mpc, maxProgress, received, sentLog,
                 finalResults, probed, joinedResults, cascadeVars, auxVars>>

\* close(done)
CloseDone ==
  /\ spc = "closedone"
  /\ doneClosed' = TRUE
  /\ spc' = "end"
  /\ UNCHANGED <<hosts, workers, si, jobs, jobsClosed, wgCount, mu, foundSet,
                 results, progress, wpc, wl, arpTable, progressCh, progClosed,
                 panicked, mresults, mpc, maxProgress, received, sentLog,
                 finalResults, probed, joinedResults, cascadeVars, auxVars>>

\* ------------------------------------------------------- Scan: workers
\* mutant: the loop gives up as soon as the queue is momentarily empty
RangeJobsEnds_OnEmpty == jobs = <<>>

\* `range jobs` ends: the channel is closed and drained
RangeJobsEnds == jobs = <<>> /\ jobsClosed

\* `for idx := range jobs`: take the next index, or leave the loop once the
\* channel is closed and drained (then the deferred wg.Done() runs)
WRecv(w) ==
  /\ wpc[w] = "range"
  /\ IF jobs # <<>>
     THEN /\ wl' = [wl EXCEPT ![w] = [NoLocals EXCEPT !.idx = Head(jobs)]]
          /\ jobs' = Tail(jobs)
          /\ wpc' = [wpc EXCEPT ![w] = "detect"]
          /\ UNCHANGED wgCount
     ELSE /\ RangeJobsEnds
          /\ wgCount' = wgCount - 1
          /\ wpc' = [wpc EXCEPT ![w] = "exit"]
          /\ UNCHANGED <<jobs, wl>>
  /\ UNCHANGED <<hosts, workers, spc, si, jobsClosed, mu, foundSet, results,
                 progress, arpTable, progressCh, progClosed, doneClosed,
                 panicked, mresults, mpc, maxProgress, received, sentLog,
                 finalResults, probed, joinedResults, cascadeVars, auxVars>>

\* method, openPorts := detectHost(ipStr, timeout)
WDetect(w) ==
  /\ wpc[w] = "detect"
  /\ \E net \in ScanNets :
       LET r == detectHost(net)
       IN /\ wl' = [wl EXCEPT ![w].method = r.method, ![w].openPorts = r.openPorts]
          /\ probed' = [probed EXCEPT ![wl[w].idx] = <<r>>]
  /\ wpc' = [wpc EXCEPT ![w] = "incr"]
  /\ UNCHANGED <<hosts, workers, spc, si, jobs, jobsClosed, wgCount, mu,
                 foundSet, results, progress, arpTable, progressCh, progClosed,
                 doneClosed, panicked, mresults, mpc, maxProgress, received,
                 sentLog, finalResults, joinedResults, cascadeVars, auxVars>>

\* mutant: a result is recorded whatever the cascade returned
Detected_Always(method) == TRUE

\* `if method != ""`
Detected(method) == method # ""

\* cur := int(atomic.AddInt64(&progress, 1)); then `if method != ""`
WIncr(w) ==
  /\ wpc[w] = "incr"
  /\ progress' = progress + 1
  /\ wl' = [wl EXCEPT ![w].cur = progress + 1]
  /\ wpc' = [wpc EXCEPT ![w] = IF Detected(wl[w].method) THEN "lock" ELSE "send"]
  /\ UNCHANGED <<hosts, workers, spc, si, jobs, jobsClosed, wgCount, mu,
                 foundSet, results, arpTable, progressCh, progClosed,
                 doneClosed, panicked, mresults, mpc, maxProgress, received,
                 sentLog, finalResults, probed, joinedResults, cascadeVars, auxVars>>

\* mutant: the lock is taken without waiting for it to be free
WLock_NoWait(w) ==
  /\ wpc[w] = "lock"
  /\ mu' = w
  /\ wpc' = [wpc EXCEPT ![w] = "check"]
  /\ UNCHANGED <<hosts, workers, spc, si, jobs, jobsClosed, wgCount, foundSet,
                 results, progress, wl, arpTable, progressCh, progClosed,
                 doneClosed, panicked, mresults, mpc, maxProgress, received,
                 sentLog, finalResults, probed, joinedResults, cascadeVars, auxVars>>

\* mu.Lock()
WLock(w) ==
  /\ wpc[w] = "lock"
  /\ mu = 0
  /\ mu' = w
  /\ wpc' = [wpc EXCEPT ![w] = "check"]
  /\ UNCHANGED <<hosts, workers, spc, si, jobs, jobsClosed, wgCount, foundSet,
                 results, progress, wl, arpTable, progressCh, progClosed,
                 doneClosed, panicked, mresults, mpc, maxProgress, received,
                 sentLog, finalResults, probed, joinedResults, cascadeVars, auxVars>>

\* mutant: the membership test is missing
AlreadyFound_Never(ipStr) == FALSE

\* foundSet[ipStr]
AlreadyFound(ipStr) == ipStr \in foundSet

\* `if !foundSet[ipStr] { foundSet[ipStr] = true`
WCheck(w) ==
  /\ wpc[w] = "check"
  /\ LET ipStr == IPString(hosts[wl[w].idx])
     IN IF ~AlreadyFound(ipStr)
        THEN /\ foundSet' = foundSet \cup {ipStr}
             /\ wpc' = [wpc EXCEPT ![w] = "append"]
        ELSE /\ wpc' = [wpc EXCEPT ![w] = "unlock"]
             /\ UNCHANGED foundSet
  /\ UNCHANGED <<hosts, workers, spc, si, jobs, jobsClosed, wgCount, mu,
                 results, progress, wl, arpTable, progressCh, progClosed,
                 doneClosed, panicked, mresults, mpc, maxProgress, received,
                 sentLog, finalResults, probed, joinedResults, cascadeVars, auxVars>>

\* mutant: the appended result is not attached to the event
WAppend_NoAnnounce(w) ==
  /\ wpc[w] = "append"
  /\ LET result == ScanResult(hosts[wl[w].idx], wl[w].method, wl[w].openPorts)
     IN results' = Append(results, result)
  /\ wpc' = [wpc EXCEPT ![w] = "unlock"]
  /\ UNCHANGED <<hosts, workers, spc, si, jobs, jobsClosed, wgCount, mu,
                 foundSet, progress, wl, arpTable, progressCh, progClosed,
                 doneClosed, panicked, mresults, mpc, maxProgress, received,
                 sentLog, finalResults, probed, joinedResults, cascadeVars, auxVars>>

\* result := ScanResult{...}; results = append(results, result); p.Found = &result
WAppend(w) ==
  /\ wpc[w] = "append"
  /\ LET result == ScanResult(hosts[wl[w].idx], wl[w].method, wl[w].openPorts)
     IN /\ results' = Append(results, result)
        /\ wl' = [wl EXCEPT ![w].found = <<result>>]
  /\ wpc' = [wpc EXCEPT ![w] = "unlock"]
  /\ UNCHANGED <<hosts, workers, spc, si, jobs, jobsClosed, wgCount, mu,
                 foundSet, progress, arpTable, progressCh, progClosed,
                 doneClosed, panicked, mresults, mpc, maxProgress, received,
                 sentLog, finalResults, probed, joinedResults, cascadeVars, auxVars>>

\* mu.Unlock()
WUnlock(w) ==
  /\ wpc[w] = "unlock"
  /\ mu' = 0
  /\ wpc' = [wpc EXCEPT ![w] = "send"]
  /\ UNCHANGED <<hosts, workers, spc, si, jobs, jobsClosed, wgCount, foundSet,
                 results, progress, wl, arpTable, progressCh, progClosed,
                 doneClosed, panicked, mresults, mpc, maxProgress, received,
                 sentLog, finalResults, probed, joinedResults, cascadeVars, auxVars>>

\* progressCh <- p
WSend(w) ==
  /\ wpc[w] = "send"
  /\ Send(Progress(wl[w].cur, total, IPString(hosts[wl[w].idx]), wl[w].found),
          "worker")
  /\ wl' = [wl EXCEPT ![w] = NoLocals]
  /\ wpc' = [wpc EXCEPT ![w] = "range"]
  /\ UNCHANGED <<hosts, workers, spc, si, jobs, jobsClosed, wgCount, mu,
                 foundSet, results, progress, arpTable, progClosed, doneClosed,
                 mresults, mpc, finalResults, probed, joinedResults, cascadeVars, auxVars>>

\* ------------------------------------------------- main: the consumer
\* one iteration of `for p := range progressCh`
MRecv ==
  /\ mpc = "range"
  /\ progressCh # <<>>
  /\ Consume(Head(progressCh))
  /\ progressCh' = Tail(progressCh)
  /\ UNCHANGED <<hosts, workers, spc, si, jobs, jobsClosed, wgCount, mu,
                 foundSet, results, progress, wpc, wl, arpTable, progClosed,
                 doneClosed, panicked, mresults, mpc, sentLog, finalResults,
                 probed, joinedResults, cascadeVars, auxVars>>

\* the range loop ends: the channel is closed and drained
MRangeEnd ==
  /\ mpc = "range"
  /\ progressCh = <<>>
  /\ progClosed
  /\ mpc' = "waitdone"
  /\ UNCHANGED <<hosts, workers, spc, si, jobs, jobsClosed, wgCount, mu,
                 foundSet, results, progress, wpc, wl, arpTable, progressCh,
                 progClosed, doneClosed, panicked, mresults, maxProgress,
                 received, sentLog, finalResults, probed, joinedResults, cascadeVars, auxVars>>

\* mutant: main does not wait for the completion signal
DoneObserved_NoWait == TRUE

\* `<-done` returns
DoneObserved == doneClosed

\* <-done
MDone ==
  /\ mpc = "waitdone"
  /\ DoneObserved
  /\ mpc' = "complete"
  /\ UNCHANGED <<hosts, workers, spc, si, jobs, jobsClosed, wgCount, mu,
                 foundSet, results, progress, wpc, wl, arpTable, progressCh,
                 progClosed, doneClosed, panicked, mresults, maxProgress,
                 received, sentLog, finalResults, probed, joinedResults, cascadeVars, auxVars>>

\* display.PrintComplete(total); main then reads its results variable
MComplete ==
  /\ mpc = "complete"
  /\ finalResults' = mresults
  /\ mpc' = "end"
  /\ UNCHANGED <<hosts, workers, spc, si, jobs, jobsClosed, wgCount, mu,
                 foundSet, results, progress, wpc, wl, arpTable, progressCh,
                 progClosed, doneClosed, panicked, mresults, maxProgress,
                 received, sentLog, probed, joinedResults, cascadeVars, auxVars>>

\* ---------------------------------------------------- specifications
DiffIdle ==
  /\ dpc = "idle" /\ dcur0 = <<>> /\ dprev0 = <<>> /\ dcur = <<>>
  /\ dprev = <<>> /\ dout = <<>>

HistIdle ==
  /\ hpc = "idle" /\ hin = <<>> /\ hfile = [kind |-> "missing"]
  /\ herr = <<>> /\ hout = <<>>

TailIdle ==
  /\ tpc = "idle" /\ truns = 0 /\ tdiff = FALSE /\ tresults = <<>>
  /\ tprev = <<>> /\ tloadErr = FALSE /\ lastJson = [kind |-> "missing"]
  /\ tsaved = <<>> /\ tsaveErr = FALSE /\ twarn = <<>> /\ tcur = <<>>
  /\ tmerged = <<>> /\ twrote = <<>>

EnumIdle ==
  /\ epc = "idle" /\ enet = [IP |-> <<0, 0, 0, 0>>, ones |-> 0]
  /\ ecur = <<0, 0, 0, 0>> /\ ehosts = <<>> /\ eret = <<>>

PingIdle ==
  /\ ppc = "idle" /\ pgoos = "linux" /\ ptimeout = 0 /\ parg = 0
  /\ palive = FALSE

AuxIdle == DiffIdle /\ HistIdle /\ TailIdle /\ EnumIdle /\ PingIdle

CascadeIdle == cnet = [icmp |-> FALSE, accept |-> {}, refused |-> {}, udp |-> {}]
               /\ cret = <<>>

Init == InitScan /\ CascadeIdle /\ AuxIdle

Next ==
  \/ Spawn
  \/ SendJobs
  \/ Wait
  \/ ReadArp
  \/ Fallback
  \/ FallbackSend
  \/ CloseProgress
  \/ CloseDone
  \/ \E w \in WorkerIds : WRecv(w)
  \/ \E w \in WorkerIds : WDetect(w)
  \/ \E w \in WorkerIds : WIncr(w)
  \/ \E w \in WorkerIds : WLock(w)
  \/ \E w \in WorkerIds : WCheck(w)
  \/ \E w \in WorkerIds : WAppend(w)
  \/ \E w \in WorkerIds : WUnlock(w)
  \/ \E w \in WorkerIds : WSend(w)
  \/ MRecv
  \/ MRangeEnd
  \/ MDone
  \/ MComplete

Spec == Init /\ [][Next]_vars

\* detectHost on its own: one address, every behaviour of the network
\* the steps of the goroutine that runs Scan, of one worker, and of main
ScanNext ==
  \/ Spawn \/ SendJobs \/ Wait \/ ReadArp \/ Fallback \/ FallbackSend
  \/ CloseProgress \/ CloseDone

WorkerNext(w) ==
  \/ WRecv(w) \/ WDetect(w) \/ WIncr(w) \/ WLock(w) \/ WCheck(w) \/ WAppend(w)
  \/ WUnlock(w) \/ WSend(w)

MainNext == MRecv \/ MRangeEnd \/ MDone \/ MComplete

\* fair scheduling: a goroutine that can take a step is not held back for
\* ever; this includes that every probe returns (WDetect) and that main keeps
\* draining the progress channel (MRecv)
SpecLive ==
  /\ Init
  /\ [][Next]_vars
  /\ WF_vars(ScanNext)
  /\ \A w \in WorkerIds : WF_vars(WorkerNext(w))
  /\ WF_vars(MainNext)

ScanIdle ==
  /\ hosts = <<>> /\ workers = 0 /\ spc = "end" /\ si = 0 /\ jobs = <<>>
  /\ jobsClosed = TRUE /\ wgCount = 0 /\ mu = 0 /\ foundSet = {}
  /\ results = <<>> /\ progress = 0
  /\ wpc = [w \in WorkerIds |-> "unspawned"]
  /\ wl = [w \in WorkerIds |-> NoLocals]
  /\ arpTable = <<>> /\ progressCh = <<>> /\ progClosed = TRUE
  /\ doneClosed = TRUE /\ panicked = FALSE /\ mresults = <<>> /\ mpc = "end"
  /\ maxProgress = 0 /\ received = <<>> /\ sentLog = <<>>
  /\ finalResults = <<>> /\ probed = <<>> /\ joinedResults = <<>>

InitCascade ==
  /\ ScanIdle
  /\ AuxIdle
  /\ cnet \in Nets(PortWindow, UdpWindow)
  /\ cret = <<>>

\* method, openPorts := detectHost(ipStr, timeout)
CascadeRun ==
  /\ cret = <<>>
  /\ cret' = <<detectHost(cnet)>>
  /\ UNCHANGED <<cnet, scanVars, auxVars>>

NextCascade == CascadeRun

SpecCascade == InitCascade /\ [][NextCascade]_vars

\* ------------------------------------------- result sets after the scan
NumAddr == 3         \* addresses that occur in result sets and history
MaxDiffLen == 2      \* SpecDiff: longest current and previous result set
MaxResults == 2      \* SpecRuns: most hosts one scan finds
MaxRuns == 3         \* SpecRuns: runs of the program, one after the other
MaxHostBits == 9     \* SpecEnum: most host bits of the enumerated network
MaxTimeoutMs == 2000 \* SpecPing: largest -timeout value, in milliseconds

\* the dotted-quad text of the addresses, as its four decimal fields
AddrTexts ==
  <<<<10, 0, 0, 9>>, <<10, 0, 1, 2>>, <<10, 0, 0, 5>>, <<10, 0, 0, 200>>,
    <<10, 1, 0, 1>>>>

\* net.IP of an IPv4 address: its four bytes, in the 4-byte or the 16-byte form
IPv4(bytes, wide) == [v4 |-> bytes, wide |-> wide]

\* ip.String(): the dotted quad, whatever the form
IPKey(ip) == ip.v4

\* net.ParseIP of a dotted quad: the 16-byte form
ParseIP(text) == IPv4(text, TRUE)

\* ScanResult with all its fields
FullResult(ip, hostname, mac, vendor, method, openPorts, status) ==
  [IP |-> ip, Hostname |-> hostname, MAC |-> mac, Vendor |-> vendor,
   Method |-> method, OpenPorts |-> openPorts, Status |-> status]

\* a []int value: nil, or a slice with its elements
NilSlice == [isNil |-> TRUE, items |-> <<>>]

Slice(items) == [isNil |-> FALSE, items |-> items]

\* the value of tcpProbe's openPorts: "var openPorts []int" and its appends
PortSlice(openPorts) == IF openPorts = <<>> THEN NilSlice ELSE Slice(openPorts)

\* the network behaviour of the addresses that are found: one answers ping
\* and accepts nothing, one accepts connections on 22, 139 and 445
FindingNets ==
  {[icmp |-> TRUE, accept |-> {}, refused |-> {}, udp |-> {}],
   [icmp |-> FALSE, accept |-> {22, 139, 445}, refused |-> {}, udp |-> {}]}

\* what Scan can have found for one address: a method and its ports
Findings ==
  {[method |-> detectHost(n).method,
    openPorts |-> PortSlice(detectHost(n).openPorts)] : n \in FindingNets}

\* what the enrichment can have filled in: hostname, MAC, vendor
Enrichments == {[hostname |-> "", mac |-> "-", vendor |-> "-"],
                [hostname |-> "nas.lan", mac |-> "aa:bb:cc:00:00:01", vendor |-> "Acme"]}

\* entries of a result set that went through Scan, enrichment or LoadHistory:
\* the status is unset
PlainEntries ==
  {FullResult(IPv4(a, w), e.hostname, e.mac, e.vendor, f.method, f.openPorts, "") :
     a \in Prefix(AddrTexts, NumAddr), w \in {FALSE}, e \in Enrichments, f \in Findings}

\* SpecDiff: per address, one entry as a bare ICMP detection and one as an
\* enriched TCP detection
DiffEntries ==
  {e \in PlainEntries : (e.Method = "ICMP") <=> (e.Hostname = "")}

SeqsUpTo(S, n) == UNION {[1..k -> S] : k \in 0..n}

Keys(rs) == {IPKey(rs[i].IP) : i \in 1..Len(rs)}

\* ------------------------------------------------------------ ComputeDiff
\* `for i := range current {... if !prevSet[ip] { current[i].Status = "NEW" } }`
MarkNew(current, previous) ==
  [i \in 1..Len(current) |->
     IF IPKey(current[i].IP) \notin Keys(previous)
     THEN [current[i] EXCEPT !.Status = "NEW"]
     ELSE current[i]]

\* `gone := r; gone.Status = "GONE"`
Gone(r) == [r EXCEPT !.Status = "GONE"]

\* `for _, r := range previous { if !curSet[ip] {...; current = append(current, gone)} }`
RECURSIVE AppendGone(_, _, _, _)
AppendGone(out, previous, curSet, i) ==
  IF i > Len(previous) THEN out
  ELSE IF IPKey(previous[i].IP) \notin curSet
       THEN AppendGone(Append(out, Gone(previous[i])), previous, curSet, i + 1)
       ELSE AppendGone(out, previous, curSet, i + 1)

\* mutant: an entry found in previous gets its status cleared
ComputeDiff_ClearContinuing(current, previous) ==
  LET marked == [i \in 1..Len(current) |->
                   [current[i] EXCEPT !.Status =
                      IF IPKey(current[i].IP) \notin Keys(previous) THEN "NEW" ELSE ""]]
  IN [ret |-> AppendGone(marked, previous, Keys(current), 1),
      current |-> marked, previous |-> previous]

\* mutant: the gone entries are marked in previous itself, not in a copy
ComputeDiff_GoneInPlace(current, previous) ==
  LET marked == MarkNew(current, previous)
  IN [ret |-> AppendGone(marked, previous, Keys(current), 1),
      current |-> marked,
      previous |-> [i \in 1..Len(previous) |->
                      IF IPKey(previous[i].IP) \notin Keys(current)
                      THEN Gone(previous[i]) ELSE previous[i]]]

\* mutant: a continuing entry takes over the data of the previous scan
ComputeDiff_KeepPrevious(current, previous) ==
  LET marked == [i \in 1..Len(current) |->
                   IF IPKey(current[i].IP) \notin Keys(previous)
                   THEN [current[i] EXCEPT !.Status = "NEW"]
                   ELSE previous[CHOOSE j \in 1..Len(previous) :
                                   IPKey(previous[j].IP) = IPKey(current[i].IP)]]
  IN [ret |-> AppendGone(marked, previous, Keys(current), 1),
      current |-> marked, previous |-> previous]

\* ComputeDiff(current, previous): the returned slice, and the caller's two
\* slices after the call (the statuses are written into current's elements)
ComputeDiff(current, previous) ==
  LET marked == MarkNew(current, previous)
  IN [ret |-> AppendGone(marked, previous, Keys(current), 1),
      current |-> marked, previous |-> previous]

InitDiff ==
  /\ ScanIdle
  /\ CascadeIdle
  /\ PingIdle
  /\ HistIdle
  /\ TailIdle
  /\ EnumIdle
  /\ dpc = "input"
  /\ dcur0 \in SeqsUpTo(DiffEntries, MaxDiffLen)
  /\ dprev0 \in SeqsUpTo(DiffEntries, MaxDiffLen)
  /\ dcur = dcur0
  /\ dprev = dprev0
  /\ dout = <<>>

\* results = ComputeDiff(current, previous), the first and the second time
\* on the caller's same two slices
DiffCall ==
  /\ dpc \in {"input", "once"}
  /\ LET d == ComputeDiff(dcur, dprev)
     IN /\ dout' = Append(dout, d.ret)
        /\ dcur' = d.current
        /\ dprev' = d.previous
  /\ dpc' = (IF dpc = "input" THEN "once" ELSE "twice")
  /\ UNCHANGED <<dcur0, dprev0, scanVars, cascadeVars, histVars, tailVars,
                 enumVars, pingVars>>

\* ComputeDiff(out, previous) with the first call's return value as current
DiffFeedBack ==
  /\ dpc = "twice"
  /\ LET d == ComputeDiff(dout[1], dprev)
     IN /\ dout' = Append(dout, d.ret)
        /\ dprev' = d.previous
  /\ dpc' = "fed"
  /\ UNCHANGED <<dcur0, dprev0, dcur, scanVars, cascadeVars, histVars, tailVars,
                 enumVars, pingVars>>

NextDiff == DiffCall \/ DiffFeedBack

SpecDiff == InitDiff /\ [][NextDiff]_vars


\* ---------------------------------------------------------------- history
\* encoding/json of a []int field: null for a nil slice, else an array
EncodeInts(slice) == [null |-> slice.isNil, items |-> slice.items]

\* json.Unmarshal into a []int field
DecodeInts(j) == IF j.null THEN NilSlice ELSE Slice(j.items)

\* historyEntry as it stands in the file: the six JSON fields
historyEntry(ip, hostname, mac, vendor, method, openPorts) ==
  [ip |-> ip, hostname |-> hostname, mac |-> mac, vendor |-> vendor,
   method |-> method, open_ports |-> EncodeInts(openPorts)]

\* mutant: a nil port list is written as it is
SaveHistory_NoNilCheck(rs) ==
  [kind |-> "ok",
   entries |-> [i \in 1..Len(rs) |->
                  historyEntry(IPKey(rs[i].IP), rs[i].Hostname, rs[i].MAC,
                               rs[i].Vendor, rs[i].Method, rs[i].OpenPorts)]]

\* SaveHistory(results): the content of the file it writes
SaveHistory(rs) ==
  [kind |-> "ok",
   entries |-> [i \in 1..Len(rs) |->
                  LET ports == IF rs[i].OpenPorts.isNil THEN Slice(<<>>)
                               ELSE rs[i].OpenPorts
                  IN historyEntry(IPKey(rs[i].IP), rs[i].Hostname, rs[i].MAC,
                                  rs[i].Vendor, rs[i].Method, ports)]]

\* what a failed SaveHistory leaves behind: the old file when MkdirAll or the
\* open failed, a cut-off file when the write failed
AfterFailedSave(file) == {file, [kind |-> "malformed"]}

\* LoadHistory(): the results and whether an error was returned
LoadHistory(file) ==
  IF file.kind # "ok" THEN [results |-> <<>>, err |-> TRUE]
  ELSE [results |-> [i \in 1..Len(file.entries) |->
                       LET e == file.entries[i]
                       IN FullResult(ParseIP(e.ip), e.hostname, e.mac, e.vendor,
                                     e.method, DecodeInts(e.open_ports), "")],
        err |-> FALSE]

\* a file that cannot be read
UnreadableFiles == {[kind |-> "missing"], [kind |-> "malformed"]}

\* SpecHistory: result sets in every state they are handed around in: either
\* form of the address, any status
AnyEntries ==
  {[e EXCEPT !.IP = IPv4(e.IP.v4, w), !.Status = st] :
     e \in DiffEntries, w \in BOOLEAN, st \in {"", "NEW", "GONE"}}

InitHistory ==
  /\ ScanIdle
  /\ CascadeIdle
  /\ PingIdle
  /\ DiffIdle
  /\ TailIdle
  /\ EnumIdle
  /\ hpc = "input"
  /\ hin \in SeqsUpTo(AnyEntries, MaxDiffLen)
  /\ hfile \in UnreadableFiles
  /\ herr = <<>>
  /\ hout = <<>>

\* err := SaveHistory(hin)
HSave ==
  /\ hpc = "input"
  /\ \/ /\ hfile' = SaveHistory(hin)
        /\ herr' = Append(herr, FALSE)
     \/ /\ hfile' \in AfterFailedSave(hfile)
        /\ herr' = Append(herr, TRUE)
  /\ hpc' = "saved"
  /\ UNCHANGED <<hin, hout, scanVars, cascadeVars, diffVars, tailVars, enumVars,
                 pingVars>>

\* hout, err := LoadHistory()
HLoad ==
  /\ hpc = "saved"
  /\ LET l == LoadHistory(hfile)
     IN /\ hout' = l.results
        /\ herr' = Append(herr, l.err)
  /\ hpc' = "loaded"
  /\ UNCHANGED <<hin, hfile, scanVars, cascadeVars, diffVars, tailVars, enumVars,
                 pingVars>>

NextHistory == HSave \/ HLoad

SpecHistory == InitHistory /\ [][NextHistory]_vars


\* ------------------------------------------------- main: after the scan
\* ipToUint32(ip): ip.To4() is the four bytes for either form
ipToUint32(ip) ==
  ip.v4[1] * 16777216 + ip.v4[2] * 65536 + ip.v4[3] * 256 + ip.v4[4]

Perms(n) == {p \in [1..n -> 1..n] : \A i, j \in 1..n : p[i] = p[j] => i = j}

\* sort.Slice(results, less) with less comparing ipToUint32: the orders it
\* can leave the slice in (it is not stable)
SortByIP(rs) ==
  {[i \in 1..Len(rs) |-> rs[p[i]]] :
     p \in {q \in Perms(Len(rs)) :
              \A i \in 1..(Len(rs) - 1) :
                 ipToUint32(rs[q[i]].IP) <= ipToUint32(rs[q[i + 1]].IP)}}

\* ScanResult{IP, Method, OpenPorts} as Scan appends it
RawEntries ==
  {FullResult(IPv4(a, FALSE), "", "", "", f.method, f.openPorts, "") :
     a \in Prefix(AddrTexts, NumAddr), f \in Findings}

\* what Scan returns for the pairwise distinct hosts of HostsInNetwork, in
\* any order of completion
RawResults ==
  {rs \in SeqsUpTo(RawEntries, MaxResults) :
     \A i, j \in 1..Len(rs) : IPKey(rs[i].IP) = IPKey(rs[j].IP) => i = j}

\* the enrichment loop, with em[ip] what the resolver and the ARP table
\* hold for the address
Enrich(rs, em) ==
  [i \in 1..Len(rs) |->
     LET e == em[IPKey(rs[i].IP)]
     IN [rs[i] EXCEPT !.Hostname = e.hostname, !.MAC = e.mac, !.Vendor = e.vendor]]

\* mutant: everything is saved
toSave_All(rs) == rs

\* the toSave slice built from results
toSave(rs) == LET alive(r) == r.Status # "GONE" IN SelectSeq(rs, alive)

InitRuns ==
  /\ ScanIdle
  /\ CascadeIdle
  /\ PingIdle
  /\ DiffIdle
  /\ HistIdle
  /\ EnumIdle
  /\ tpc = "start"
  /\ truns = 1
  /\ tdiff \in BOOLEAN
  /\ lastJson \in UnreadableFiles
  /\ tresults = <<>> /\ tprev = <<>> /\ tloadErr = FALSE /\ tsaved = <<>>
  /\ tsaveErr = FALSE /\ twarn = <<>> /\ tcur = <<>> /\ tmerged = <<>>
  /\ twrote = <<>>

tailRest == <<scanVars, cascadeVars, diffVars, histVars, enumVars, pingVars>>

\* results = scanner.Scan(...), received after <-done
TScan ==
  /\ tpc = "start"
  /\ tresults' \in RawResults
  /\ tpc' = "enrich"
  /\ UNCHANGED <<truns, tdiff, tprev, tloadErr, lastJson, tsaved, tsaveErr,
                 twarn, tcur, tmerged, twrote, tailRest>>

\* the enrichment loop
TEnrich ==
  /\ tpc = "enrich"
  /\ \E em \in [Keys(tresults) -> Enrichments] : tresults' = Enrich(tresults, em)
  /\ tpc' = "sort"
  /\ UNCHANGED <<truns, tdiff, tprev, tloadErr, lastJson, tsaved, tsaveErr,
                 twarn, tcur, tmerged, twrote, tailRest>>

\* sort.Slice(results, ...) after the enrichment
TSort ==
  /\ tpc = "sort"
  /\ tresults' \in SortByIP(tresults)
  /\ tpc' = (IF tdiff THEN "load" ELSE "render")
  /\ UNCHANGED <<truns, tdiff, tprev, tloadErr, lastJson, tsaved, tsaveErr,
                 twarn, tcur, tmerged, twrote, tailRest>>

\* mutant: a failed load ends the run
TLoad_AbortOnError ==
  /\ tpc = "load"
  /\ LET l == LoadHistory(lastJson)
     IN /\ tprev' = l.results
        /\ tloadErr' = l.err
        /\ twarn' = (IF l.err THEN Append(twarn, "no previous scan data") ELSE twarn)
        /\ tpc' = (IF l.err THEN "exit1" ELSE "diff")
  /\ UNCHANGED <<truns, tdiff, tresults, lastJson, tsaved, tsaveErr, tcur,
                 tmerged, twrote, tailRest>>

\* previous, err := scanner.LoadHistory(), with the note on an error
TLoad ==
  /\ tpc = "load"
  /\ LET l == LoadHistory(lastJson)
     IN /\ tprev' = l.results
        /\ tloadErr' = l.err
        /\ twarn' = (IF l.err THEN Append(twarn, "no previous scan data") ELSE twarn)
  /\ tpc' = "diff"
  /\ UNCHANGED <<truns, tdiff, tresults, lastJson, tsaved, tsaveErr, tcur,
                 tmerged, twrote, tailRest>>

\* results = scanner.ComputeDiff(results, previous)
TComputeDiff ==
  /\ tpc = "diff"
  /\ LET d == ComputeDiff(tresults, tprev)
     IN /\ tresults' = d.ret
        /\ tprev' = d.previous
        /\ tmerged' = d.ret
  /\ tcur' = tresults
  /\ tpc' = "resort"
  /\ UNCHANGED <<truns, tdiff, tloadErr, lastJson, tsaved, tsaveErr, twarn,
                 twrote, tailRest>>

\* mutant: no second sort
TResort_Skip ==
  /\ tpc = "resort"
  /\ tpc' = "save"
  /\ UNCHANGED <<tresults, truns, tdiff, tprev, tloadErr, lastJson, tsaved,
                 tsaveErr, twarn, tcur, tmerged, twrote, tailRest>>

\* sort.Slice(results, ...) after the diff
TResort ==
  /\ tpc = "resort"
  /\ tresults' \in SortByIP(tresults)
  /\ tpc' = "save"
  /\ UNCHANGED <<truns, tdiff, tprev, tloadErr, lastJson, tsaved, tsaveErr,
                 twarn, tcur, tmerged, twrote, tailRest>>

\* the second "if diff" block: toSave, SaveHistory, the warning on an error
TSave ==
  /\ tpc = "save"
  /\ tsaved' = Append(tsaved, toSave(tresults))
  /\ \/ /\ lastJson' = SaveHistory(toSave(tresults))
        /\ tsaveErr' = FALSE
        /\ twrote' = tresults
        /\ twarn' = twarn
     \/ /\ lastJson' \in AfterFailedSave(lastJson)
        /\ tsaveErr' = TRUE
        /\ twrote' = twrote
        /\ twarn' = Append(twarn, "failed to save scan history")
  /\ tpc' = "render"
  /\ UNCHANGED <<truns, tdiff, tresults, tprev, tloadErr, tcur, tmerged,
                 tailRest>>

\* the output writer and the renderer: results is handed to
\* PrintResultsJSON, PrintResultsCSV or PrintResults unless the output file
\* cannot be created
TRender ==
  /\ tpc = "render"
  /\ \E created \in BOOLEAN : tpc' = (IF created THEN "rendered" ELSE "exit1")
  /\ UNCHANGED <<truns, tdiff, tresults, tprev, tloadErr, lastJson, tsaved,
                 tsaveErr, twarn, tcur, tmerged, twrote, tailRest>>

\* the program is started again; the history file is what is left of the
\* run before
TNextRun ==
  /\ tpc \in {"rendered", "exit1"}
  /\ truns < MaxRuns
  /\ truns' = truns + 1
  /\ tdiff' \in BOOLEAN
  /\ tpc' = "start"
  /\ tresults' = <<>> /\ tprev' = <<>> /\ tloadErr' = FALSE /\ tsaved' = <<>>
  /\ tsaveErr' = FALSE /\ twarn' = <<>> /\ tcur' = <<>> /\ tmerged' = <<>>
  /\ UNCHANGED <<lastJson, twrote, tailRest>>

NextRuns ==
  \/ TScan \/ TEnrich \/ TSort \/ TLoad \/ TComputeDiff \/ TResort \/ TSave
  \/ TRender \/ TNextRun

SpecRuns == InitRuns /\ [][NextRuns]_vars


\* --------------------------------------------------------- HostsInNetwork
\* an IPv4 address is its four bytes; a mask is its number of leading ones
IPBits == 32

\* the bits of byte j (1..4) that a mask of that many ones keeps
KeepBits(ones, j) ==
  LET k == ones - 8 * (j - 1) IN IF k < 0 THEN 0 ELSE IF k > 8 THEN 8 ELSE k

\* network.IP.Mask(network.Mask)
Mask(ip, ones) ==
  [j \in 1..4 |-> (ip[j] \div 2^(8 - KeepBits(ones, j))) * 2^(8 - KeepBits(ones, j))]

\* network.Contains(ip): the masked bytes agree
Contains(network, ip) == Mask(network.IP, network.ones) = Mask(ip, network.ones)

cloneIP(ip) == ip

\* incIP: bytes are incremented from the last one while they wrap to 0
RECURSIVE incFrom(_, _)
incFrom(ip, j) ==
  IF j < 1 THEN ip
  ELSE LET b == (ip[j] + 1) % 256
           next == [ip EXCEPT ![j] = b]
       IN IF b > 0 THEN next ELSE incFrom(next, j - 1)

incIP(ip) == incFrom(ip, 4)

\* the interface addresses used: inside a private network, next to a byte
\* carry, and at the top of the address space
EnumAddrs == {<<10, 0, 0, 37>>, <<192, 168, 255, 129>>, <<255, 255, 255, 200>>}

EnumPrefixes == {0} \cup ((IPBits - MaxHostBits)..IPBits)

InitEnum ==
  /\ ScanIdle
  /\ CascadeIdle
  /\ PingIdle
  /\ DiffIdle
  /\ HistIdle
  /\ TailIdle
  /\ epc = "call"
  /\ enet \in [IP : EnumAddrs, ones : EnumPrefixes]
  /\ ecur = <<0, 0, 0, 0>>
  /\ ehosts = <<>>
  /\ eret = <<>>

enumRest == <<scanVars, cascadeVars, diffVars, histVars, tailVars, pingVars>>

\* ip := network.IP.Mask(network.Mask); the early return for a mask of no
\* or of all ones; current := cloneIP(ip)
EnumStart ==
  /\ epc = "call"
  /\ IF enet.ones = 0 \/ enet.ones = IPBits
     THEN /\ epc' = "done"
          /\ ecur' = ecur
     ELSE /\ epc' = "loop"
          /\ ecur' = cloneIP(Mask(enet.IP, enet.ones))
  /\ UNCHANGED <<enet, ehosts, eret, enumRest>>

\* one iteration of the loop
EnumStep ==
  /\ epc = "loop"
  /\ Contains(enet, ecur)
  /\ ehosts' = Append(ehosts, cloneIP(ecur))
  /\ ecur' = incIP(ecur)
  /\ UNCHANGED <<epc, enet, eret, enumRest>>

\* mutant: only the first address is removed
EnumTrim_KeepLast ==
  /\ epc = "loop"
  /\ ~Contains(enet, ecur)
  /\ eret' = (IF Len(ehosts) > 2 THEN SubSeq(ehosts, 2, Len(ehosts)) ELSE <<>>)
  /\ epc' = "done"
  /\ UNCHANGED <<enet, ecur, ehosts, enumRest>>

\* the loop ends; the first and the last address are removed
EnumTrim ==
  /\ epc = "loop"
  /\ ~Contains(enet, ecur)
  /\ eret' = (IF Len(ehosts) > 2 THEN SubSeq(ehosts, 2, Len(ehosts) - 1) ELSE <<>>)
  /\ epc' = "done"
  /\ UNCHANGED <<enet, ecur, ehosts, enumRest>>

NextEnum == EnumStart \/ EnumStep \/ EnumTrim

\* the function runs on: every step that can be taken is taken
SpecEnum == InitEnum /\ [][NextEnum]_vars /\ WF_vars(NextEnum)


\* ---------------------------------------------------------------- icmpPing
\* time.Millisecond, in nanoseconds
Millisecond == 1000000

\* time.Duration(timeout) * time.Millisecond, for the -timeout flag
Duration(ms) == ms * Millisecond

\* timeout.Milliseconds()
Milliseconds(d) == d \div Millisecond

\* the variable timeoutSec: the timeout in milliseconds, at least 1
timeoutSec(timeout) ==
  IF Milliseconds(timeout) < 1 THEN 1 ELSE Milliseconds(timeout)

\* the number formatted into the ping command line for each runtime.GOOS
pingArg(goos, timeout) ==
  IF goos \in {"windows", "darwin"} THEN timeoutSec(timeout)
  ELSE IF timeoutSec(timeout) \div 1000 < 1 THEN 1 ELSE timeoutSec(timeout) \div 1000

\* the time the platform's ping waits for that number: -w on Windows and -W
\* on macOS count milliseconds, -W on Linux counts seconds
PingWait(goos, arg) ==
  IF goos \in {"windows", "darwin"} THEN arg * Millisecond
  ELSE arg * 1000 * Millisecond

GOOS == {"windows", "darwin", "linux"}

InitPing ==
  /\ ScanIdle
  /\ CascadeIdle
  /\ DiffIdle
  /\ HistIdle
  /\ TailIdle
  /\ EnumIdle
  /\ ppc = "call"
  /\ pgoos \in GOOS
  /\ ptimeout \in {Duration(ms) : ms \in 0..MaxTimeoutMs}
  /\ parg = 0
  /\ palive = FALSE

\* icmpPing(ip, timeout): the command is built and run; ping answers or not
PingCall ==
  /\ ppc = "call"
  /\ parg' = pingArg(pgoos, ptimeout)
  /\ palive' \in BOOLEAN
  /\ ppc' = "called"
  /\ UNCHANGED <<pgoos, ptimeout, scanVars, cascadeVars, diffVars, histVars,
                 tailVars, enumVars>>

NextPing == PingCall

SpecPing == InitPing /\ [][NextPing]_vars

\* ------------------------------------------------------------ properties
\* helpers of the properties
SpawnedWorkers == 1..workers

AllWorkersExited == \A w \in SpawnedWorkers : wpc[w] = "exit"

\* wg.Wait() has returned
Joined == spc \in {"arp", "fallback", "fbsend", "closeprog", "closedone", "end"}

\* the fallback loop is over
FallbackOver == spc \in {"closeprog", "closedone", "end"}

DistinctHosts == \A i, j \in 1..Len(hosts) : i # j => hosts[i] # hosts[j]

IsARP(r) == r.Method = "ARP"

IsActive(r) == r.Method # "ARP"

ByWorker(e) == e.by = "worker"

ByFallback(e) == e.by = "fallback"

WorkerEvents == SelectSeq(sentLog, ByWorker)

FallbackEvents == SelectSeq(sentLog, ByFallback)

\* a worker is stopped at `progressCh <- p` because the channel cannot take it
Blocked(w) == wpc[w] = "send" /\ ~CanSend

C2_OneResultPerDetectedAddress ==
  (Joined /\ DistinctHosts) =>
    LET p1 == SelectSeq(results, IsActive)
        hit == {i \in 1..Len(hosts) : probed[i] # <<>> /\ probed[i][1].method # ""}
    IN /\ Len(p1) = Cardinality(hit)
       /\ \A i \in hit :
            \E k \in 1..Len(p1) :
              p1[k] = ScanResult(hosts[i], probed[i][1].method, probed[i][1].openPorts)
       /\ \A i \in (1..Len(hosts)) \ hit :
            \A k \in 1..Len(p1) : p1[k].IP # hosts[i]

C2_Witness ==
  /\ Joined /\ DistinctHosts /\ Len(hosts) = 2 /\ workers = 2
  /\ probed[1] # <<>> /\ probed[1][1].method = "TCP"
  /\ probed[2] # <<>> /\ probed[2][1].method = "TCP"
  /\ Len(results) = 2

\* C3 as stated: once the workers have joined, the workers have emitted as
\* many progress events as there are addresses.
C3_WorkerEventsEqualAddresses ==
  Joined => Len(WorkerEvents) = Len(hosts)

\* C3 amended: with at least one worker, once the workers have joined, the
\* workers have emitted exactly one event per enumerated address (per
\* address: as many events as the address has places in the sequence),
\* detected or not, and the fallback events come on top of that count.
C3_WorkerEventsEqualAddressesGivenWorkers ==
  (Joined /\ workers >= 1) =>
    /\ Len(WorkerEvents) = Len(hosts)
    /\ \A a \in Addrs :
         Cardinality({k \in 1..Len(WorkerEvents) : WorkerEvents[k].ev.IP = IPString(a)})
           = Cardinality({i \in 1..Len(hosts) : hosts[i] = a})
    /\ Len(sentLog) = Len(hosts) + Len(FallbackEvents)

C3_Witness ==
  /\ FallbackOver /\ workers >= 1 /\ Len(hosts) = 2
  /\ Len(FallbackEvents) = 1
  /\ \E k \in 1..Len(WorkerEvents) : WorkerEvents[k].ev.Found = <<>>
  /\ \E k \in 1..Len(WorkerEvents) : WorkerEvents[k].ev.Found # <<>>

\* C4: while the address-resolution table is read or an ARP result is
\* appended or announced, no worker is running: every worker has left its
\* loop and the lock is free.
C4_FallbackAfterJoin ==
  Joined => (AllWorkersExited /\ mu = 0 /\ wgCount = 0)

C4_Witness ==
  /\ spc = "fbsend" /\ workers = 2 /\ AllWorkersExited
  /\ Len(joinedResults) >= 1

\* C5: when the fallback loop is over, the results are the results at the
\* join followed by one ARP entry with no ports for exactly each enumerated
\* address that is not in the discovered set and has a non-empty hardware
\* address in the table, in enumeration order, each announced by one
\* fallback event; nothing is added for a discovered address, an address
\* missing from the table or one with an empty hardware address.
C5_FallbackAddsExactlyArpHits ==
  FallbackOver =>
    LET n == Len(joinedResults)
        disc == {IPString(joinedResults[k].IP) : k \in 1..n}
        cand(i) == /\ IPString(hosts[i]) \notin disc
                   /\ arpTable[IPString(hosts[i])].ok
                   /\ arpTable[IPString(hosts[i])].mac # ""
        want == {i \in 1..Len(hosts) : cand(i)}
    IN /\ Len(results) = n + Cardinality(want)
       /\ SubSeq(results, 1, n) = joinedResults
       /\ \A k \in (n + 1)..Len(results) :
            /\ results[k].Method = "ARP"
            /\ results[k].OpenPorts = <<>>
            /\ \E i \in want : hosts[i] = results[k].IP
       /\ \A i \in want : \E k \in (n + 1)..Len(results) : results[k].IP = hosts[i]
       /\ Len(FallbackEvents) = Cardinality(want)
       /\ \A j \in 1..Len(FallbackEvents) :
            FallbackEvents[j].ev.Found = <<results[n + j]>>

C5_Witness ==
  /\ FallbackOver /\ Len(hosts) = 2 /\ DistinctHosts
  /\ Len(joinedResults) = 1 /\ Len(results) = 2
  /\ results[2].Method = "ARP"
  /\ arpTable[IPString(joinedResults[1].IP)].ok
  /\ arpTable[IPString(joinedResults[1].IP)].mac # ""

\* C6: no event is sent on the closed progress channel; the channel is
\* closed only when every worker has left and the fallback loop is over;
\* done is raised only after the close; main prints the completion marker
\* and reads the results only after it has taken every event sent and done
\* is raised, and then holds the results Scan returned.
C6_CloseAfterLastSendThenDone ==
  /\ ~panicked
  /\ progClosed => (AllWorkersExited /\ spc \in {"closedone", "end"})
  /\ doneClosed => progClosed
  /\ mpc \in {"complete", "end"} =>
       /\ doneClosed
       /\ progressCh = <<>>
       /\ Len(received) = Len(sentLog)
       /\ \A k \in 1..Len(received) : received[k] = sentLog[k].ev
       /\ mresults = results
  /\ mpc = "end" => finalResults = results

C6_Witness ==
  /\ mpc = "end" /\ workers = 2 /\ Len(hosts) = 2
  /\ Len(FallbackEvents) >= 1 /\ Len(WorkerEvents) = 2
  /\ Len(received) = Len(sentLog)

\* C7 as stated: no worker is ever blocked on sending its progress event.
C7_NoWorkerBlockedOnSend ==
  \A w \in WorkerIds : ~Blocked(w)

\* C7 amended: a worker is blocked on sending only while the channel holds
\* as many undelivered events as there are workers, which needs more
\* addresses than workers; with no more addresses than workers no worker
\* is ever blocked.
C7_BlockedOnlyWhenBufferFull ==
  \A w \in WorkerIds :
    Blocked(w) => (Len(progressCh) = workers /\ Len(hosts) > workers)

C7_Witness ==
  \E w \in WorkerIds : Blocked(w) /\ workers = 1 /\ Len(hosts) = 2

\* C8 as stated: no worker has taken an address from the job queue while
\* not every address has been put into it.
C8_QueueFilledBeforeWorkersStart ==
  (\E w \in WorkerIds : wpc[w] \notin {"unspawned", "range", "exit"}) =>
    (spc # "spawn" /\ (spc = "sendjobs" => si = Len(hosts)))

\* C8 amended: every worker is started before the first address is put
\* into the job queue; the queue has room for every address, so the filling
\* loop is never blocked; the queue is closed after the last address was
\* put in and nothing is written to it afterwards.
C8_WorkersStartFirstFillNeverBlocks ==
  /\ spc = "sendjobs" => \A w \in SpawnedWorkers : wpc[w] # "unspawned"
  /\ (spc = "sendjobs" /\ si < Len(hosts)) => Len(jobs) < JobsCap
  /\ spc = "spawn" => (jobs = <<>> /\ ~jobsClosed)
  /\ jobsClosed => (spc \notin {"spawn", "sendjobs"} /\ Len(jobs) <= Len(hosts))

C8_Witness ==
  /\ spc = "sendjobs" /\ si = 1 /\ Len(hosts) = 2 /\ jobs = <<>>
  /\ \E w \in WorkerIds : wpc[w] = "detect"

\* C9: detectHost returns method ICMP whenever the ping succeeded, whatever
\* the TCP ports and the UDP ports did.
C9_IcmpWins ==
  (cret # <<>> /\ cnet.icmp) => cret[1].method = "ICMP"

C9_Witness ==
  /\ cret # <<>> /\ cnet.icmp
  /\ cnet.accept # {} /\ cnet.refused # {} /\ cnet.udp # {}

C11_NoPortsWithoutMethod ==
  /\ \A i \in DOMAIN probed :
       probed[i] # <<>> =>
         /\ probed[i][1].method \in {"", "ICMP", "TCP", "UDP"}
         /\ probed[i][1].method = "" => probed[i][1].openPorts = <<>>
  /\ \A k \in 1..Len(results) : results[k].Method \in {"ICMP", "TCP", "UDP", "ARP"}

C11_Witness ==
  /\ FallbackOver /\ Len(hosts) = 2 /\ Len(results) = 1
  /\ probed[1] # <<>> /\ probed[1][1].method = ""
  /\ probed[2] # <<>> /\ probed[2][1].method = "TCP"
  /\ probed[2][1].openPorts # <<>>

\* helpers of the ComputeDiff properties
AddrA == IPv4(AddrTexts[1], FALSE)

AddrB == IPv4(AddrTexts[2], FALSE)

AddrC == IPv4(AddrTexts[3], FALSE)

AbsentFrom(rs, r) == IPKey(r.IP) \notin Keys(rs)

GoneOf(previous, current) ==
  LET absent(r) == AbsentFrom(current, r)
      g == SelectSeq(previous, absent)
  IN [i \in 1..Len(g) |-> [g[i] EXCEPT !.Status = "GONE"]]

\* C12: the first call returns every current entry in place, with status NEW
\* when its address is not in previous and unset when it is, its other
\* fields being those of the current entry, followed by the previous entries
\* whose address is not in current, in their order, with status GONE and
\* otherwise the previous entry's data.
C12_DiffClassifies ==
  dpc # "input" =>
    LET out == dout[1]
        n == Len(dcur0)
    IN /\ Len(out) = n + Len(GoneOf(dprev0, dcur0))
       /\ \A i \in 1..n :
            out[i] = [dcur0[i] EXCEPT !.Status =
                        IF AbsentFrom(dprev0, dcur0[i]) THEN "NEW" ELSE ""]
       /\ SubSeq(out, n + 1, Len(out)) = GoneOf(dprev0, dcur0)

\* previous = {A, B}, current = {B, C} gives B unset, C NEW, A GONE, with B's
\* current data differing from its previous data
C12_Witness ==
  /\ dpc = "once"
  /\ Len(dprev0) = 2 /\ dprev0[1].IP = AddrA /\ dprev0[2].IP = AddrB
  /\ Len(dcur0) = 2 /\ dcur0[1].IP = AddrB /\ dcur0[2].IP = AddrC
  /\ dcur0[1].Method # dprev0[2].Method
  /\ Len(dout[1]) = 3
  /\ dout[1][1].IP = AddrB /\ dout[1][1].Status = ""
  /\ dout[1][1].Method = dcur0[1].Method
  /\ dout[1][2].IP = AddrC /\ dout[1][2].Status = "NEW"
  /\ dout[1][3].IP = AddrA /\ dout[1][3].Status = "GONE"

\* C13: the second call on the caller's same two slices returns what the
\* first call returned, and so does a call with the first return value as
\* current and the same previous.
C13_DiffIdempotent ==
  /\ dpc \in {"twice", "fed"} => dout[2] = dout[1]
  /\ dpc = "fed" => dout[3] = dout[1]

C13_Witness ==
  /\ dpc = "fed" /\ dout[3] = dout[1] /\ dout[2] = dout[1]
  /\ \E i \in 1..Len(dout[1]) : dout[1][i].Status = "GONE"
  /\ \E i \in 1..Len(dout[1]) : dout[1][i].Status = "NEW"
  /\ \E i \in 1..Len(dout[1]) : dout[1][i].Status = ""

\* C14 as stated: after the call the caller's current and previous hold
\* the same entries with the same field values, status included, as before.
C14_DiffLeavesInputsUntouched ==
  dpc # "input" => (dcur = dcur0 /\ dprev = dprev0)

\* C14 amended: after the call the caller's previous is as before; the
\* caller's current holds the same entries in the same order with the same
\* field values, except that the status of every entry whose address is not
\* in previous has been set to NEW.
C14_DiffWritesOnlyNewStatus ==
  dpc # "input" =>
    /\ dprev = dprev0
    /\ Len(dcur) = Len(dcur0)
    /\ \A i \in 1..Len(dcur0) :
         dcur[i] = (IF AbsentFrom(dprev0, dcur0[i])
                    THEN [dcur0[i] EXCEPT !.Status = "NEW"]
                    ELSE dcur0[i])

C14_Witness ==
  /\ dpc = "once" /\ Len(dcur0) = 2 /\ Len(dprev0) = 2
  /\ dcur[1].Status = "NEW" /\ dcur[2].Status = ""
  /\ \E i \in 1..Len(dout[1]) : dout[1][i].Status = "GONE"
  /\ dprev = dprev0

\* C16: when LoadHistory follows a SaveHistory that returned no error, it
\* returns no error and as many entries, each with the address, hostname,
\* MAC, vendor, method and open ports of the saved entry at its position and
\* with no status; the file holds an array, never null, for every port
\* list, an empty one for an entry without ports, which reloads as an empty
\* port list.
C16_HistoryRoundTrip ==
  /\ (hpc \in {"saved", "loaded"} /\ ~herr[1]) =>
       /\ hfile.kind = "ok"
       /\ Len(hfile.entries) = Len(hin)
       /\ \A i \in 1..Len(hin) :
            /\ ~hfile.entries[i].open_ports.null
            /\ hfile.entries[i].open_ports.items = hin[i].OpenPorts.items
            /\ DOMAIN hfile.entries[i] =
                 {"ip", "hostname", "mac", "vendor", "method", "open_ports"}
  /\ (hpc = "loaded" /\ ~herr[1]) =>
       /\ ~herr[2]
       /\ Len(hout) = Len(hin)
       /\ \A i \in 1..Len(hin) :
            /\ IPKey(hout[i].IP) = IPKey(hin[i].IP)
            /\ hout[i].Hostname = hin[i].Hostname
            /\ hout[i].MAC = hin[i].MAC
            /\ hout[i].Vendor = hin[i].Vendor
            /\ hout[i].Method = hin[i].Method
            /\ hout[i].OpenPorts.items = hin[i].OpenPorts.items
            /\ hout[i].Status = ""

\* two entries saved and reloaded: one without ports and with a status, one
\* with ports; the reloaded entries carry the address in the other form
C16_Witness ==
  /\ hpc = "loaded" /\ herr = <<FALSE, FALSE>> /\ Len(hin) = 2
  /\ hin[1].OpenPorts = NilSlice /\ hin[1].Status = "NEW" /\ ~hin[1].IP.wide
  /\ hin[2].OpenPorts.items = <<22, 445, 139>>
  /\ hin[1].IP # hin[2].IP
  /\ hout[1].OpenPorts = Slice(<<>>) /\ hout[1].Status = ""
  /\ hout[2].OpenPorts.items = <<22, 445, 139>>
  /\ hout[1].IP = ParseIP(IPKey(hin[1].IP))

\* helpers of the properties of main after the scan
AfterLoad == {"diff", "resort", "save", "render", "rendered", "exit1"}

AfterDiff == {"resort", "save", "render", "rendered", "exit1"}

AfterSave == {"render", "rendered", "exit1"}

Ascending(ns) == \A i \in 1..(Len(ns) - 1) : ns[i] < ns[i + 1]

ByAddress(rs) ==
  \A i \in 1..(Len(rs) - 1) : ipToUint32(rs[i].IP) <= ipToUint32(rs[i + 1].IP)

GoneKeys(rs) == {IPKey(rs[i].IP) : i \in {j \in 1..Len(rs) : rs[j].Status = "GONE"}}

\* C15: whenever the history file holds a written history, it holds, in
\* order, one entry for each entry of the writing run's final result set
\* whose status is not GONE, with that entry's address, hostname, MAC,
\* vendor, method and ports and no status field, and so no address that run
\* classified as GONE; in a diff run whose save succeeded the writing run is
\* the run itself.
C15_HistoryHoldsNonGoneOnly ==
  /\ lastJson.kind = "ok" =>
       LET alive(r) == r.Status # "GONE"
           kept == SelectSeq(twrote, alive)
       IN /\ Len(lastJson.entries) = Len(kept)
          /\ \A i \in 1..Len(kept) :
               lastJson.entries[i] =
                 [ip |-> IPKey(kept[i].IP), hostname |-> kept[i].Hostname,
                  mac |-> kept[i].MAC, vendor |-> kept[i].Vendor,
                  method |-> kept[i].Method,
                  open_ports |-> [null |-> FALSE, items |-> kept[i].OpenPorts.items]]
          /\ \A i \in 1..Len(lastJson.entries) :
               lastJson.entries[i].ip \notin GoneKeys(twrote)
  /\ (tdiff /\ tpc \in AfterSave /\ ~tsaveErr) =>
       (lastJson.kind = "ok" /\ twrote = tresults)

\* the second run finds one host of the first run gone and writes the
\* history without it
C15_Witness ==
  /\ truns = 2 /\ tpc = "rendered" /\ tdiff /\ ~tloadErr /\ ~tsaveErr
  /\ Len(tprev) = 2
  /\ GoneKeys(tresults) # {}
  /\ lastJson.kind = "ok" /\ Len(lastJson.entries) = 1
  /\ Len(tresults) = 2

\* C17: in diff mode, when the history file is missing or malformed,
\* LoadHistory returns an error and no entries, a note is written, and the
\* run goes on: ComputeDiff returns the current hosts in their order, each
\* with status NEW, and nothing else; SaveHistory is then called once, with
\* all of them; unless that write fails the file holds exactly these hosts.
C17_UnreadableHistoryMeansAllNew ==
  /\ (tpc \in {"diff", "resort", "save"} /\ lastJson.kind # "ok") =>
       (tloadErr /\ tprev = <<>> /\ twarn # <<>>)
  /\ (tloadErr /\ tpc \in AfterLoad) => tdiff
  /\ (tloadErr /\ tpc \in AfterDiff) =>
       /\ tmerged = [i \in 1..Len(tcur) |-> [tcur[i] EXCEPT !.Status = "NEW"]]
       /\ Len(tresults) = Len(tcur)
       /\ Keys(tresults) = Keys(tcur)
       /\ \A i \in 1..Len(tresults) : tresults[i].Status = "NEW"
  /\ (tloadErr /\ tpc \in AfterSave) =>
       /\ tsaved = <<tresults>>
       /\ ~tsaveErr =>
            /\ lastJson.kind = "ok"
            /\ Len(lastJson.entries) = Len(tresults)
            /\ \A i \in 1..Len(tresults) :
                 lastJson.entries[i].ip = IPKey(tresults[i].IP)

\* a first diff run without a history file that finds two hosts
C17_Witness ==
  /\ truns = 1 /\ tpc = "rendered" /\ tdiff /\ tloadErr /\ ~tsaveErr
  /\ Len(tresults) = 2
  /\ tresults[1].Status = "NEW" /\ tresults[2].Status = "NEW"
  /\ lastJson.kind = "ok" /\ Len(lastJson.entries) = 2
  /\ Len(twarn) = 1

C19_PortsAscending ==
  /\ tpc \in {"render", "rendered"} =>
       \A i \in 1..Len(tresults) : Ascending(tresults[i].OpenPorts.items)
  /\ lastJson.kind = "ok" =>
       \A i \in 1..Len(lastJson.entries) :
          Ascending(lastJson.entries[i].open_ports.items)

\* helpers of the HostsInNetwork property
HostBits == IPBits - enet.ones

\* the address k above the network address base (k below 2^16, base's low
\* bits zero)
Offset(base, k) ==
  LET low == base[3] * 256 + base[4] + k
  IN <<base[1], base[2], low \div 256, low % 256>>

\* a below b as numbers, compared half by half
Below(a, b) ==
  \/ a[1] * 256 + a[2] < b[1] * 256 + b[2]
  \/ /\ a[1] * 256 + a[2] = b[1] * 256 + b[2]
     /\ a[3] * 256 + a[4] < b[3] * 256 + b[4]

EnumResultRight ==
  LET base == Mask(enet.IP, enet.ones)
      n == Len(eret)
  IN IF enet.ones = 0 \/ enet.ones = IPBits THEN n = 0
     ELSE /\ n = 2^HostBits - 2
          /\ \A i \in 1..n : eret[i] = Offset(base, i)
          /\ \A i \in 1..(n - 1) : Below(eret[i], eret[i + 1])
          /\ \A i \in 1..n :
               /\ Mask(eret[i], enet.ones) = base
               /\ eret[i] # base
               /\ eret[i] # Offset(base, 2^HostBits - 1)

\* C20: HostsInNetwork returns; for a prefix length p of 1 to 31 it returns
\* 2^(32-p)-2 addresses, the i-th being the network address plus i, so
\* strictly ascending, inside the subnet, without the network and the
\* broadcast address (none for p = 31); for p = 0 and p = 32 it returns
\* none; while it runs it has collected at most the 2^(32-p) addresses of
\* the subnet.
C20_EnumeratesUsableHosts ==
  /\ [](epc = "done" => EnumResultRight)
  /\ [](epc = "loop" => Len(ehosts) <= 2^HostBits)
  /\ <>(epc = "done")

\* the subnet 255.255.254.0/23, which ends at 255.255.255.255, enumerated
\* across the byte carry
C20_Witness ==
  /\ epc = "done" /\ enet.IP = <<255, 255, 255, 200>> /\ enet.ones = 23
  /\ Len(eret) = 510
  /\ eret[1] = <<255, 255, 254, 1>>
  /\ eret[256] = <<255, 255, 255, 0>>
  /\ eret[510] = <<255, 255, 255, 254>>
  /\ ecur = <<0, 0, 0, 0>>

\* helpers of the properties of the progress display
Max(S) == IF S = {} THEN 0 ELSE CHOOSE m \in S : \A x \in S : x <= m

ReceivedCounts == {received[k].Current : k \in 1..Len(received)}

\* the workers have joined and main has taken every event they sent (the
\* channel delivers in the order of sending, the workers' events first)
WorkerEventsConsumed == Joined /\ Len(received) >= Len(WorkerEvents)

ProgressShownRight ==
  /\ maxProgress = Max(ReceivedCounts)
  /\ maxProgress <= total

\* C21 as stated: the shown count never decreases and never exceeds the
\* address count, and once every worker event has been consumed it equals
\* the address count.
C21_ShownCountReachesTotal ==
  /\ ProgressShownRight
  /\ WorkerEventsConsumed => maxProgress = total

\* C21 amended: the shown count is the largest completed-count received so
\* far, never decreases from one step to the next and never exceeds the
\* address count; with at least one worker, once the workers have joined
\* their events carry each value 1..total exactly once, and once main has
\* consumed them all the shown count equals the address count.
C21_ShownCountMonotoneReachesTotalGivenWorkers ==
  /\ [](ProgressShownRight)
  /\ [][maxProgress' >= maxProgress]_vars
  /\ []((Joined /\ workers >= 1) =>
          /\ Len(WorkerEvents) = total
          /\ \A v \in 1..total :
               Cardinality({k \in 1..Len(WorkerEvents) :
                              WorkerEvents[k].ev.Current = v}) = 1)
  /\ []((WorkerEventsConsumed /\ workers >= 1) => maxProgress = total)

\* two workers, two addresses: the event counting 2 arrived before the event
\* counting 1, and the shown count stayed at 2
C21_Witness ==
  /\ workers = 2 /\ Len(hosts) = 2 /\ Len(received) = 2
  /\ received[1].Current = 2 /\ received[2].Current = 1
  /\ maxProgress = 2
  /\ Joined

\* C22: on every platform and for every timeout, the time the platform's
\* ping waits for the number icmpPing hands it does not exceed the timeout
\* icmpPing was called with.
C22_PingWaitWithinTimeout ==
  ppc = "called" => PingWait(pgoos, parg) <= ptimeout

\* helpers of the termination property
AllProcessed == \A i \in 1..Len(hosts) : probed[i] # <<>>

ScanCompleted ==
  /\ AllProcessed /\ AllWorkersExited /\ FallbackOver /\ progClosed /\ doneClosed

Finished == spc = "end" /\ mpc = "end" /\ AllWorkersExited

\* C23: with at least one worker, under fair scheduling the scan reaches the
\* state in which every address has been probed, every worker has left its
\* loop, the fallback loop is over, the progress channel is closed and done
\* is closed; and in every reachable state some goroutine can take a step
\* unless the scan and main have finished.
C23_ScanRunsToCompletion ==
  /\ (workers >= 1) => <>ScanCompleted
  /\ [](workers >= 1 => (Finished \/ ENABLED Next))

\* one worker, two addresses, a fallback entry: completed
C23_Witness ==
  /\ workers = 1 /\ Len(hosts) = 2 /\ ScanCompleted /\ Finished
  /\ Len(FallbackEvents) = 1 /\ Len(WorkerEvents) = 2

\* helpers of the mutual exclusion property
InCritical(w) == wpc[w] \in {"check", "append", "unlock"}

AddrsOf(rs) == {IPString(rs[i].IP) : i \in 1..Len(rs)}

\* the address a worker has entered into foundSet and not yet appended
Pending == {IPString(hosts[wl[w].idx]) : w \in {v \in WorkerIds : wpc[v] = "append"}}

MutualExclusion ==
  /\ Cardinality({w \in WorkerIds : InCritical(w)}) <= 1
  /\ \A w \in WorkerIds : InCritical(w) <=> mu = w
  /\ Joined => mu = 0

\* C24 as stated: at most one worker is between the check and the append,
\* the lock is held exactly by that worker, and whenever the lock is free
\* the found set holds the addresses of the result list.
C24_LockGuardsSetAndList ==
  /\ MutualExclusion
  /\ mu = 0 => foundSet = AddrsOf(results)

\* C24 amended: at most one worker is between Lock and Unlock and the lock
\* is held exactly by that worker, also on the path where the address was
\* already present; while the lock is held only its holder changes the found
\* set or the result list; the found set holds the addresses of the
\* active-probe entries of the result list, and in addition the address its
\* holder has checked and not yet appended; the fallback entries are not in
\* the found set.
C24_LockGuardsSetAndActiveEntries ==
  /\ [](MutualExclusion)
  /\ [](foundSet = AddrsOf(SelectSeq(results, IsActive)) \cup Pending)
  /\ [][(mu # 0 /\ (foundSet' # foundSet \/ results' # results))
          => (wpc'[mu] # wpc[mu])]_vars
  /\ [][(results' # results /\ mu = 0) => IsARP(results'[Len(results')])]_vars

\* the address was already present (worker 2 appended it): worker 1 holds
\* the lock and is about to release it without having appended
C24_Witness ==
  /\ wpc[1] = "unlock" /\ wl[1].found = <<>> /\ mu = 1
  /\ IPString(hosts[wl[1].idx]) \in foundSet
  /\ wpc[2] \in {"send", "range"}
  /\ Len(results) = 1

\* helpers of the discovery event property
HasFound(e) == e.ev.Found # <<>>

FoundEvents == SelectSeq(sentLog, HasFound)

\* results appended whose event has not been sent yet
Unannounced ==
  Cardinality({w \in WorkerIds : wl[w].found # <<>>})
    + (IF spc = "fbsend" THEN 1 ELSE 0)

Announcing(r) ==
  {k \in 1..Len(FoundEvents) :
     /\ FoundEvents[k].ev.Found = <<r>>
     /\ FoundEvents[k].ev.IP = IPString(r.IP)}

\* C25: every event that carries a discovery carries an entry of the result
\* list with the address the event reports; the result list is as long as
\* the events with a discovery sent so far plus the entries appended whose
\* event is not sent yet; when Scan has returned the events with a discovery
\* are as many as the entries, every entry has as many announcing events
\* (same address, method and ports) as it has places in the list, and
\* exactly one when the addresses are pairwise distinct.
C25_DiscoveriesMatchResults ==
  /\ \A k \in 1..Len(FoundEvents) :
       /\ IPString(FoundEvents[k].ev.Found[1].IP) = FoundEvents[k].ev.IP
       /\ \E i \in 1..Len(results) : results[i] = FoundEvents[k].ev.Found[1]
  /\ Len(results) = Len(FoundEvents) + Unannounced
  /\ FallbackOver =>
       /\ Len(FoundEvents) = Len(results)
       /\ mresults = results
       /\ \A i \in 1..Len(results) :
            /\ Cardinality(Announcing(results[i])) =
                 Cardinality({j \in 1..Len(results) : results[j] = results[i]})
            /\ DistinctHosts => Cardinality(Announcing(results[i])) = 1

\* two addresses: one detected by a worker, one found by the fallback; three
\* events, two of them with a discovery
C25_Witness ==
  /\ FallbackOver /\ DistinctHosts /\ Len(results) = 2 /\ Len(sentLog) = 3
  /\ IsActive(results[1]) /\ IsARP(results[2])
  /\ Len(FoundEvents) = 2

\* helpers of the property of a scan without workers
NoWorkerRan ==
  /\ \A w \in WorkerIds : wpc[w] = "unspawned"
  /\ \A i \in 1..Len(hosts) : probed[i] = <<>>
  /\ WorkerEvents = <<>>
  /\ progress = 0

ScanNeverBlocksOnJobs ==
  /\ (spc = "sendjobs" /\ si < Len(hosts)) => Len(jobs) < JobsCap
  /\ spc = "wait" => WgWaitReturns

\* C26: with a worker count of 0 no worker is started, no address is probed
\* and no worker event is sent; filling the job queue never blocks and
\* wg.Wait() returns at once; every entry of the result list is an ARP entry
\* of the fallback; with main receiving, Scan returns.
C26_NoWorkersOnlyFallback ==
  /\ [](workers = 0 =>
          /\ NoWorkerRan
          /\ ScanNeverBlocksOnJobs
          /\ \A i \in 1..Len(results) : IsARP(results[i])
          /\ Len(sentLog) = Len(results) - (IF spc = "fbsend" THEN 1 ELSE 0))
  /\ (workers = 0) => <>(FallbackOver /\ mresults = results)

\* no workers, two addresses, both in the ARP table: Scan returned two ARP
\* entries
C26_Witness ==
  /\ workers = 0 /\ FallbackOver /\ DistinctHosts /\ Len(hosts) = 2
  /\ Len(mresults) = 2 /\ IsARP(mresults[1]) /\ IsARP(mresults[2])
  /\ jobs = <<1, 2>>

\* helpers of the property of successive diff runs
FoundKeys(rs) == Keys(rs) \ GoneKeys(rs)

\* a diff run has loaded the history and computed the diff, and has not yet
\* written its own history: twrote is still the final result set of the run
\* that wrote the history it loaded
DiffedAgainstHistory == tdiff /\ ~tloadErr /\ tpc \in {"resort", "save"}

\* C27: when a diff run has loaded a written history, its baseline holds
\* exactly the hosts the writing run found (one entry each); it reports GONE
\* exactly the hosts of that baseline it does not find, so none that the
\* writing run reported GONE already; and it reports NEW exactly the hosts it
\* finds that are not in the baseline, among them every host the writing run
\* reported GONE.
C27_BaselineIsLastFoundSet ==
  DiffedAgainstHistory =>
    /\ lastJson.kind = "ok"
    /\ Keys(tprev) = FoundKeys(twrote)
    /\ Len(tprev) = Cardinality(FoundKeys(twrote))
    /\ GoneKeys(tresults) = FoundKeys(twrote) \ Keys(tcur)
    /\ GoneKeys(tresults) \cap GoneKeys(twrote) = {}
    /\ FoundKeys(tresults) = Keys(tcur)
    /\ \A i \in 1..Len(tresults) :
         LET k == IPKey(tresults[i].IP)
         IN /\ (k \in Keys(tcur) /\ k \notin FoundKeys(twrote)) => tresults[i].Status = "NEW"
            /\ (k \in Keys(tcur) /\ k \in FoundKeys(twrote)) => tresults[i].Status = ""
            /\ (k \in GoneKeys(twrote)) => tresults[i].Status = "NEW"

\* third run: the second run reported two hosts GONE; one of them is found
\* again and reported NEW, the other is still absent and not reported
C27_Witness ==
  /\ truns = 3 /\ DiffedAgainstHistory /\ tpc = "save"
  /\ Cardinality(GoneKeys(twrote)) = 2 /\ FoundKeys(twrote) = {}
  /\ Len(tresults) = 1 /\ tresults[1].Status = "NEW"
  /\ IPKey(tresults[1].IP) \in GoneKeys(twrote)

====
